---------------------------- MODULE Spec2Model ----------------------------
(***************************************************************************)
(* Model of USPPCIEPHY (litex_on_profpga_systems/pcie/usppciephy.py): the  *)
(* adapter between a LiteX application clock domain and the Xilinx         *)
(* UltraScale+ PCIe hard IP ("pcie" clock domain).                         *)
(*                                                                         *)
(* The module holds several specifications over one set of variables, one  *)
(* per part of the adapter:                                                *)
(*   SpecCtor   the constructor __init__, statement group by group;        *)
(*   Spec       the size registers of the self.sync.pcie block;            *)
(*   SpecId     the id register of the self.sync.pcie block;               *)
(*   SpecRelay  the MultiReg relays of the status registers;               *)
(*   SpecBme    the relay of the bus-master status;                        *)
(*   SpecMsi    the MSI path (direct, or through the depth-4 AsyncFIFO);   *)
(*   SpecWidth  the TX/RX datapaths as width adapters.                     *)
(* A specification keeps the variables of the other parts at their reset   *)
(* values.  A reset of a clock domain re-enters Init and starts a new      *)
(* behaviour; the specifications describe operation between resets.        *)
(***************************************************************************)
EXTENDS Integers, Sequences, FiniteSets, TLC

VARIABLES
    \* constructor
    pc, speed, nlanes, data_width, pcie_data_width_arg, pcie_data_width, cd,
    exists, error,
    \* hard IP outputs sampled by self.sync.pcie, and its registers
    cfg_max_read_req, cfg_max_payload_size,
    function_number, device_number, bus_number,
    max_request_size, max_payload_size, id,
    \* status relays
    link_up, msi_enable, cfg_function_status,
    link_up_regs, bme_regs, msi_enable_regs, mrs_regs, mps_regs,
    lu_held, me_held, mrs_held, mps_held, bme_from,
    \* MSI path
    msi_cdc, msi_valid, msi_dat, msi_sent, cfg_msi_sent,
    produce, consume, produce_rdomain, consume_wdomain, storage,
    msi_accepted, dev_accepted, msi_hazard,
    \* datapaths
    frame, tx_out, rx_out, wpc

ctorVars  == <<pc, speed, nlanes, data_width, pcie_data_width_arg,
               pcie_data_width, cd, exists, error>>
pcieVars  == <<cfg_max_read_req, cfg_max_payload_size,
               function_number, device_number, bus_number,
               max_request_size, max_payload_size, id>>
relayVars == <<link_up, msi_enable, cfg_function_status,
               link_up_regs, bme_regs, msi_enable_regs, mrs_regs, mps_regs,
               lu_held, me_held, mrs_held, mps_held, bme_from>>
msiVars   == <<msi_cdc, msi_valid, msi_dat, msi_sent, cfg_msi_sent,
               produce, consume, produce_rdomain, consume_wdomain, storage,
               msi_accepted, dev_accepted, msi_hazard>>
widthVars == <<frame, tx_out, rx_out, wpc>>
vars      == <<ctorVars, pcieVars, relayVars, msiVars, widthVars>>

\* pcie_data_width=None, the default of the constructor's argument.
WidthNone == 0

\* No exception raised.
NoError == [type |-> "", message |-> "", line |-> 0]

\* No queue built: cfg_msi is self.msi.
NoQueue == [depth |-> 0, write |-> "", read |-> ""]

Min(a, b) == IF a < b THEN a ELSE b

Pow2(n) == 2 ^ n

\* A value cut to the width of the w-bit signal it is assigned to.
Trunc(v, w) == v % Pow2(w)

\* Bit i of v.
Bit(v, i) == (v \div Pow2(i)) % 2

(***************************************************************************)
(* Hard IP configuration: convert_size and the self.sync.pcie block.       *)
(***************************************************************************)

\* value = 128 before the loop.
BaseSize == 128

\* for i in range(6)
NumSizeCases == 6

\* max_size=512 at both call sites.
MaxSize == 512

\* value = value*2
NextSizeUnclamped(value, max_size) == value * 2

\* value = min(value*2, max_size)
NextSize(value, max_size) == Min(value * 2, max_size)

\* The value of the loop variable when cases[i] is built.
RECURSIVE SizeAt(_, _)
SizeAt(i, max_size) ==
    IF i = 0 THEN BaseSize ELSE NextSize(SizeAt(i - 1, max_size), max_size)

\* cases = {i: size.eq(value)} for i in range(6)
SizeCases(max_size) == [i \in 0 .. NumSizeCases - 1 |-> SizeAt(i, max_size)]

\* Case(command, cases) with a default branch that clears the register.
convert_size_default(command, size, max_size) ==
    IF command \in DOMAIN SizeCases(max_size)
    THEN Trunc(SizeCases(max_size)[command], 16)
    ELSE 0

\* Case(command, cases) in a sync block: the matching case assigns the
\* register; no case matches and there is no default: the register holds.
convert_size(command, size, max_size) ==
    IF command \in DOMAIN SizeCases(max_size)
    THEN Trunc(SizeCases(max_size)[command], 16)
    ELSE size

\* Cat(function_number, device_number, bus_number) with the bus number in
\* the low bits.
CatBusFirst(fn, dev, bus) == bus + Pow2(8) * dev + Pow2(13) * fn

\* Cat(function_number, device_number, bus_number): the first operand takes
\* the low bits: 3 bits, then 5 bits, then 8 bits.
CatId(fn, dev, bus) == fn + Pow2(3) * dev + Pow2(8) * bus

\* The registers at their reset value; the hard IP drives some size codes.
PcieInitWith(ReadReqs, Payloads) ==
    /\ cfg_max_read_req \in ReadReqs
    /\ cfg_max_payload_size \in Payloads
    /\ function_number = 0
    /\ device_number = 0
    /\ bus_number = 0
    /\ max_request_size = 0
    /\ max_payload_size = 0
    /\ id = 0

PcieInit == PcieInitWith({0}, {0})

\* The registers of self.sync.pcie after a rising edge of the pcie clock.
PcieRegisters ==
    /\ max_request_size' = convert_size(cfg_max_read_req, max_request_size, MaxSize)
    /\ max_payload_size' = convert_size(cfg_max_payload_size, max_payload_size, MaxSize)
    /\ id' = Trunc(CatId(function_number, device_number, bus_number), 16)

\* The hard IP drives new values on the outputs the adapter reads
\* (o_cfg_max_read_req, o_cfg_max_payload, i_cfg_ds_*_number's sources,
\* o_user_lnk_up, o_cfg_interrupt_msi_enable, o_cfg_function_status).
HardIpOutputs(ReadReqs, Payloads, Fns, Devs, Buses, LinkUps, MsiEnables, FuncStatuses) ==
    /\ cfg_max_read_req' \in ReadReqs
    /\ cfg_max_payload_size' \in Payloads
    /\ function_number' \in Fns
    /\ device_number' \in Devs
    /\ bus_number' \in Buses
    /\ link_up' \in LinkUps
    /\ msi_enable' \in MsiEnables
    /\ cfg_function_status' \in FuncStatuses

\* 3-bit size codes.
SizeCodes == 0 .. 7

FnValues  == {0, 1, 5, 7}
DevValues == {0, 1, 21, 31}
BusValues == {0, 1, 170, 255}

(***************************************************************************)
(* Status relays: MultiReg(i, o) is a chain of two registers clocked by    *)
(* the reading domain ("sys"), fed by a signal of the pcie domain.  The    *)
(* two clocks are unrelated.  A capture whose edge falls in the window in  *)
(* which the source changes resolves every changing bit on its own to the  *)
(* old or the new level.                                                   *)
(***************************************************************************)

RECURSIVE SumPow2(_)
SumPow2(S) ==
    IF S = {} THEN 0
    ELSE LET i == CHOOSE x \in S : TRUE IN Pow2(i) + SumPow2(S \ {i})

\* The values a w-bit capture can resolve to while its source goes from
\* old to new: every bit is the old or the new one.
CaptureSet(old, new, w) ==
    IF old = new THEN {Trunc(old, w)}
    ELSE LET changing == {i \in 0 .. w - 1 : Bit(old, i) # Bit(new, i)}
             stable   == {i \in 0 .. w - 1 : Bit(old, i) = 1 /\ Bit(new, i) = 1}
         IN  {SumPow2(stable \cup S) : S \in SUBSET changing}

\* MultiReg after an edge of the reading clock: the first register takes
\* the capture, the second the first.
MultiRegShift(regs, capture) == <<capture, regs[1]>>

\* The output of a MultiReg: its last register, cut to the width of o.
MultiRegOut(regs, w) == Trunc(regs[2], w)

\* CSRStatus(): 1 bit; CSRStatus(16): 16 bits.
link_up_status          == MultiRegOut(link_up_regs, 1)
msi_enable_status       == MultiRegOut(msi_enable_regs, 1)
max_request_size_status == MultiRegOut(mrs_regs, 16)
max_payload_size_status == MultiRegOut(mps_regs, 16)

\* The status read from bit 2 of the word (Bus Master Enable of the
\* function status word).
BmeFromBit2 == Bit(bme_regs[2], 2)

\* MultiReg(cfg_function_status, self._bus_master_enable.status): a 16-bit
\* source assigned to a 1-bit status.
bus_master_enable_status == MultiRegOut(bme_regs, 1)

RelayInit ==
    /\ link_up = 0
    /\ msi_enable = 0
    /\ cfg_function_status = 0
    /\ link_up_regs = <<0, 0>>
    /\ bme_regs = <<0, 0>>
    /\ msi_enable_regs = <<0, 0>>
    /\ mrs_regs = <<0, 0>>
    /\ mps_regs = <<0, 0>>
    /\ lu_held = {0}
    /\ me_held = {0}
    /\ mrs_held = {0}
    /\ mps_held = {0}
    /\ bme_from = <<{0}, {0}>>

\* History: the values the relayed sources have held so far.
HeldAfterPcieEdge ==
    /\ lu_held' = lu_held \cup {link_up'}
    /\ me_held' = me_held \cup {msi_enable'}
    /\ mrs_held' = mrs_held \cup {max_request_size'}
    /\ mps_held' = mps_held \cup {max_payload_size'}

\* History: the status words each register of the bus-master relay was
\* captured from (one word, or the two around a pcie edge).
CapturedFrom(from, old, new) == <<{old, new}, from[1]>>

\* One rising edge of the pcie clock, the sys clock being away from it.
PcieEdge(ReadReqs, Payloads, Fns, Devs, Buses, LinkUps, MsiEnables, FuncStatuses) ==
    /\ PcieRegisters
    /\ HardIpOutputs(ReadReqs, Payloads, Fns, Devs, Buses, LinkUps, MsiEnables, FuncStatuses)
    /\ HeldAfterPcieEdge
    /\ UNCHANGED <<link_up_regs, bme_regs, msi_enable_regs, mrs_regs, mps_regs,
                   bme_from>>

\* One rising edge of the sys clock, the pcie clock being away from it:
\* every relay captures its source as it stands.
SysEdge ==
    /\ link_up_regs' = MultiRegShift(link_up_regs, link_up)
    /\ bme_regs' = MultiRegShift(bme_regs, cfg_function_status)
    /\ msi_enable_regs' = MultiRegShift(msi_enable_regs, msi_enable)
    /\ mrs_regs' = MultiRegShift(mrs_regs, max_request_size)
    /\ mps_regs' = MultiRegShift(mps_regs, max_payload_size)
    /\ bme_from' = CapturedFrom(bme_from, cfg_function_status, cfg_function_status)
    /\ UNCHANGED <<pcieVars, link_up, msi_enable, cfg_function_status,
                   lu_held, me_held, mrs_held, mps_held>>

\* A rising edge of the sys clock inside the window in which the pcie edge
\* changes the sources: every relay captures a bitwise choice between its
\* source before and after the pcie edge.
CoincidentEdges(ReadReqs, Payloads, Fns, Devs, Buses, LinkUps, MsiEnables, FuncStatuses) ==
    /\ PcieRegisters
    /\ HardIpOutputs(ReadReqs, Payloads, Fns, Devs, Buses, LinkUps, MsiEnables, FuncStatuses)
    /\ \E c \in CaptureSet(link_up, link_up', 1) :
           link_up_regs' = MultiRegShift(link_up_regs, c)
    /\ \E c \in CaptureSet(cfg_function_status, cfg_function_status', 16) :
           bme_regs' = MultiRegShift(bme_regs, c)
    /\ \E c \in CaptureSet(msi_enable, msi_enable', 1) :
           msi_enable_regs' = MultiRegShift(msi_enable_regs, c)
    /\ \E c \in CaptureSet(max_request_size, max_request_size', 16) :
           mrs_regs' = MultiRegShift(mrs_regs, c)
    /\ \E c \in CaptureSet(max_payload_size, max_payload_size', 16) :
           mps_regs' = MultiRegShift(mps_regs, c)
    /\ HeldAfterPcieEdge
    /\ bme_from' = CapturedFrom(bme_from, cfg_function_status, cfg_function_status')

(***************************************************************************)
(* Spec: the pcie clock alone, the hard IP driving every size code.        *)
(***************************************************************************)

SizeStep ==
    /\ PcieEdge(SizeCodes, SizeCodes, {0}, {0}, {0}, {0}, {0}, {0})
    /\ UNCHANGED <<ctorVars, msiVars, widthVars>>

(***************************************************************************)
(* SpecId: the pcie clock alone, the hard IP driving a choice of function, *)
(* device and bus numbers.                                                 *)
(***************************************************************************)

IdStep ==
    /\ PcieEdge({0}, {0}, FnValues, DevValues, BusValues, {0}, {0}, {0})
    /\ UNCHANGED <<ctorVars, msiVars, widthVars>>

(***************************************************************************)
(* SpecRelay: the pcie and the sys clock, the hard IP driving link_up and   *)
(* the read request size code.                                             *)
(***************************************************************************)

RelayReadReqs == {0, 1, 2, 6}
Bits == {0, 1}

RelayPcieStep ==
    /\ PcieEdge(RelayReadReqs, {0}, {0}, {0}, {0}, Bits, {0}, {0})
    /\ UNCHANGED <<ctorVars, msiVars, widthVars>>

RelaySysStep ==
    /\ SysEdge
    /\ UNCHANGED <<ctorVars, msiVars, widthVars>>

RelayCoincidentStep ==
    /\ CoincidentEdges(RelayReadReqs, {0}, {0}, {0}, {0}, Bits, {0}, {0})
    /\ UNCHANGED <<ctorVars, msiVars, widthVars>>

(***************************************************************************)
(* SpecBme: the pcie and the sys clock, the hard IP driving the function   *)
(* status word (bit 0: I/O space enable, bit 2: bus master enable).        *)
(***************************************************************************)

FuncStatusValues == {0, 1, 4, 5, 32772}

BmePcieStep ==
    /\ PcieEdge({0}, {0}, {0}, {0}, {0}, {0}, {0}, FuncStatusValues)
    /\ UNCHANGED <<ctorVars, msiVars, widthVars>>

BmeSysStep ==
    /\ SysEdge
    /\ UNCHANGED <<ctorVars, msiVars, widthVars>>

BmeCoincidentStep ==
    /\ CoincidentEdges({0}, {0}, {0}, {0}, {0}, {0}, {0}, FuncStatusValues)
    /\ UNCHANGED <<ctorVars, msiVars, widthVars>>

(***************************************************************************)
(* The constructor USPPCIEPHY.__init__, one step per group of statements,  *)
(* in source order.  exists holds what the constructor has created so far. *)
(***************************************************************************)

StreamEndpoints == {"req_sink", "cmp_sink", "req_source", "cmp_source", "msi"}
StatusRegisters == {"_link_up", "_msi_enable", "_bus_master_enable",
                    "_max_request_size", "_max_payload_size"}
Clocking        == {"IBUFDS_GTE4", "cd_pcie"}
Datapaths       == {"cc_datapath", "rq_datapath", "cq_datapath", "rc_datapath"}
Queues          == {"msi_cdc"}
Relays          == {"MultiReg(link_up)", "MultiReg(cfg_function_status)",
                    "MultiReg(msi_enable)", "MultiReg(max_request_size)",
                    "MultiReg(max_payload_size)"}

\* MSI FIFO depth: stream.AsyncFIFO(msi_layout(), 4).
MsiFifoDepth == 4

\* if pcie_data_width is None: pcie_data_width = 64
ResolveTo64(arg, dw) == IF arg = WidthNone THEN 64 ELSE arg

\* if pcie_data_width is None: pcie_data_width = data_width
ResolvePcieDataWidth(arg, dw) == IF arg = WidthNone THEN dw ELSE arg

SpeedOk(s) == s \in {"gen2", "gen3", "gen4"}

\* The lane check without x16.
NlanesOkNo16(n) == n \in {1, 2, 4, 8}

NlanesOk(n) == n \in {1, 2, 4, 8, 16}

WidthOk(w) == w \in {64, 128, 256, 512}

\* The four assert statements in order: the line of the first that fails,
\* 0 when all pass.
FirstFailedAssert(s, n, dw, pdw) ==
    IF ~SpeedOk(s) THEN 54
    ELSE IF ~NlanesOk(n) THEN 55
    ELSE IF ~WidthOk(dw) THEN 56
    ELSE IF ~WidthOk(pdw) THEN 57
    ELSE 0

\* A failed "assert <condition>" with no message expression.
AssertionError(line) == [type |-> "AssertionError", message |-> "", line |-> line]

\* The queue is built for every cd.
BuildMsiCdcAlways(c) == [depth |-> MsiFifoDepth, write |-> c, read |-> "pcie"]

\* if cd == "pcie": cfg_msi = self.msi; else: an AsyncFIFO of depth 4 with
\* its write side in cd and its read side in pcie.
BuildMsiCdc(c) ==
    IF c = "pcie" THEN NoQueue
    ELSE [depth |-> MsiFifoDepth, write |-> c, read |-> "pcie"]

\* What a completed constructor has created.
AllBuilt(c) ==
    StreamEndpoints \cup StatusRegisters \cup Clocking \cup Datapaths \cup Relays
    \cup (IF BuildMsiCdc(c) = NoQueue THEN {} ELSE Queues)

Speeds      == {"gen1", "gen2", "gen3", "gen4"}
LaneCounts  == {1, 2, 3, 4, 8, 16, 32}
WidthArgs   == {32, 64, 128, 256, 512, 1024}
ClockDomains == {"sys", "pcie"}

CtorInit ==
    /\ pc = "streams"
    /\ speed \in Speeds
    /\ nlanes \in LaneCounts
    /\ data_width \in WidthArgs
    /\ pcie_data_width_arg \in WidthArgs \cup {WidthNone}
    /\ pcie_data_width = WidthNone
    /\ cd \in ClockDomains
    /\ exists = {}
    /\ error = NoError

\* The state of the constructor's variables after a default construction
\* with the given widths and clock domain.
CtorDone(dw, arg, c) ==
    /\ pc = "done"
    /\ speed = "gen2"
    /\ nlanes = 1
    /\ data_width = dw
    /\ pcie_data_width_arg = arg
    /\ pcie_data_width = ResolvePcieDataWidth(arg, dw)
    /\ cd = c
    /\ exists = AllBuilt(c)
    /\ error = NoError

CtorFrame == UNCHANGED <<speed, nlanes, data_width, pcie_data_width_arg, cd,
                         pcieVars, relayVars, widthVars,
                         msi_valid, msi_dat, msi_sent, cfg_msi_sent,
                         produce, consume, produce_rdomain, consume_wdomain,
                         storage, msi_accepted, dev_accepted, msi_hazard>>

\* Streams: the five stream.Endpoint objects.
CtorStreams ==
    /\ pc = "streams"
    /\ exists' = exists \cup StreamEndpoints
    /\ pc' = "registers"
    /\ UNCHANGED <<pcie_data_width, error, msi_cdc>>
    /\ CtorFrame

\* Registers: the five CSRStatus objects.
CtorRegisters ==
    /\ pc = "registers"
    /\ exists' = exists \cup StatusRegisters
    /\ pc' = "params"
    /\ UNCHANGED <<pcie_data_width, error, msi_cdc>>
    /\ CtorFrame

\* Parameters/Locals, self.speed and self.nlanes.
CtorParams ==
    /\ pc = "params"
    /\ pcie_data_width' = ResolvePcieDataWidth(pcie_data_width_arg, data_width)
    /\ pc' = "asserts"
    /\ UNCHANGED <<exists, error, msi_cdc>>
    /\ CtorFrame

\* The four assert statements.
CtorAsserts ==
    /\ pc = "asserts"
    /\ LET line == FirstFailedAssert(speed, nlanes, data_width, pcie_data_width)
       IN  IF line = 0
           THEN pc' = "clocking" /\ error' = error
           ELSE pc' = "raised" /\ error' = AssertionError(line)
    /\ UNCHANGED <<pcie_data_width, exists, msi_cdc>>
    /\ CtorFrame

\* Clocking / Reset.
CtorClocking ==
    /\ pc = "clocking"
    /\ exists' = exists \cup Clocking
    /\ pc' = "datapaths"
    /\ UNCHANGED <<pcie_data_width, error, msi_cdc>>
    /\ CtorFrame

\* TX and RX datapaths.
CtorDatapaths ==
    /\ pc = "datapaths"
    /\ exists' = exists \cup Datapaths
    /\ pc' = "msi_cdc"
    /\ UNCHANGED <<pcie_data_width, error, msi_cdc>>
    /\ CtorFrame

\* MSI CDC.
CtorMsiCdc ==
    /\ pc = "msi_cdc"
    /\ msi_cdc' = BuildMsiCdc(cd)
    /\ exists' = exists \cup (IF msi_cdc' = NoQueue THEN {} ELSE Queues)
    /\ pc' = "hard_ip"
    /\ UNCHANGED <<pcie_data_width, error>>
    /\ CtorFrame

\* Hard IP Configuration (the sync block and the MultiReg relays) and the
\* parameters of the hard IP instance.
CtorHardIp ==
    /\ pc = "hard_ip"
    /\ exists' = exists \cup Relays
    /\ pc' = "done"
    /\ UNCHANGED <<pcie_data_width, error, msi_cdc>>
    /\ CtorFrame

(***************************************************************************)
(* The MSI path.  With cd = "pcie" the hard IP is wired to self.msi; with  *)
(* any other cd it is wired to the read side of an asynchronous FIFO whose *)
(* write side is fed by self.msi.  The FIFO: a circular buffer, a write    *)
(* pointer stepped in the write domain and a read pointer stepped in the   *)
(* read domain, both one bit wider than the address and Gray coded, each   *)
(* seen by the other side through a two-register relay.                    *)
(***************************************************************************)

\* Units the application offers in a run.
MaxMsi == 9

RECURSIVE Log2(_)
Log2(n) == IF n <= 1 THEN 0 ELSE 1 + Log2(n \div 2)

Depth    == MsiFifoDepth
PtrWidth == Log2(Depth) + 1
PtrMod   == Pow2(PtrWidth)

\* b xor (b >> 1)
GrayEncode(b) ==
    SumPow2({i \in 0 .. PtrWidth - 1 : Bit(b, i) # Bit(b, i + 1)})

GrayDecode(g) == CHOOSE b \in 0 .. PtrMod - 1 : GrayEncode(b) = g

\* Full: the Gray pointers differ in their two top bits and agree below.
writable ==
    LET p == GrayEncode(produce)
        c == consume_wdomain[2]
    IN  \/ Bit(p, PtrWidth - 1) = Bit(c, PtrWidth - 1)
        \/ Bit(p, PtrWidth - 2) = Bit(c, PtrWidth - 2)
        \/ p % Pow2(PtrWidth - 2) # c % Pow2(PtrWidth - 2)

\* Not empty: the read pointer differs from the write pointer it sees.
readable == GrayEncode(consume) # produce_rdomain[2]

Bool2Bit(b) == IF b THEN 1 ELSE 0

\* cfg_msi is self.msi or msi_cdc.source.
cfg_msi_valid == IF msi_cdc = NoQueue THEN msi_valid ELSE Bool2Bit(readable)
cfg_msi_dat   == IF msi_cdc = NoQueue THEN msi_dat ELSE storage[consume % Depth]

\* self.msi.ready: driven by o_cfg_interrupt_msi_sent, or by the sink of
\* the FIFO (self.msi.connect(msi_cdc.sink)).
msi_ready == IF msi_cdc = NoQueue THEN cfg_msi_sent ELSE Bool2Bit(writable)

\* The producer side taking a unit whenever one is offered.
MsiSinkTransferNoReady == msi_valid = 1

\* A unit leaves self.msi on an edge where valid and ready are both set.
MsiSinkTransfer == msi_valid = 1 /\ msi_ready = 1

\* The hard IP taking a unit whenever it signals "sent".
CfgMsiTransferNoValid == cfg_msi_sent = 1

\* i_cfg_interrupt_msi_int_valid = cfg_msi.valid, o_cfg_interrupt_msi_sent
\* = cfg_msi.ready: the hard IP takes a unit on an edge where both are set.
CfgMsiTransfer == cfg_msi_valid = 1 /\ cfg_msi_sent = 1

Occupancy == (produce - consume) % PtrMod

MsiSignalsInit ==
    /\ msi_valid = 0
    /\ msi_dat = 0
    /\ msi_sent = 0
    /\ cfg_msi_sent = 0
    /\ produce = 0
    /\ consume = 0
    /\ produce_rdomain = <<0, 0>>
    /\ consume_wdomain = <<0, 0>>
    /\ storage = [a \in 0 .. Depth - 1 |-> 0]
    /\ msi_accepted = <<>>
    /\ dev_accepted = <<>>
    /\ msi_hazard = FALSE

\* The application: a unit it offers stays offered until taken; otherwise
\* it idles or offers the next unit (units are numbered to tell them apart).
ProducerNext(transferred) ==
    IF msi_valid = 1 /\ ~transferred
    THEN UNCHANGED <<msi_valid, msi_dat, msi_sent>>
    ELSE \/ msi_valid' = 0 /\ msi_dat' = 0 /\ msi_sent' = msi_sent
         \/ /\ msi_sent < MaxMsi
            /\ msi_valid' = 1
            /\ msi_dat' = Trunc(msi_sent + 1, 8)
            /\ msi_sent' = msi_sent + 1

\* The write side of the FIFO at an edge of its clock.
WriteSide ==
    /\ IF MsiSinkTransfer
       THEN /\ storage' = [storage EXCEPT ![produce % Depth] = msi_dat]
            /\ produce' = (produce + 1) % PtrMod
            /\ msi_accepted' = Append(msi_accepted, msi_dat)
       ELSE UNCHANGED <<storage, produce, msi_accepted>>
    /\ ProducerNext(MsiSinkTransfer)

\* The read side of the FIFO at an edge of its clock.  A slot read while
\* it is being written yields the old or the new content.
ReadSide ==
    /\ IF CfgMsiTransfer
       THEN /\ consume' = (consume + 1) % PtrMod
            /\ \E d \in {storage[consume % Depth], storage'[consume % Depth]} :
                   dev_accepted' = Append(dev_accepted, d)
       ELSE UNCHANGED <<consume, dev_accepted>>
    /\ cfg_msi_sent' \in Bits

\* The relays of the two pointers; a pointer that moves at this very edge
\* is captured bit by bit.
WriteCapture ==
    \E c \in CaptureSet(GrayEncode(consume), GrayEncode(consume'), PtrWidth) :
        consume_wdomain' = MultiRegShift(consume_wdomain, c)

ReadCapture ==
    \E c \in CaptureSet(GrayEncode(produce), GrayEncode(produce'), PtrWidth) :
        produce_rdomain' = MultiRegShift(produce_rdomain, c)

\* A write into a full buffer or a read from an empty one.
Hazard(writing, reading) ==
    \/ writing /\ Occupancy >= Depth
    \/ reading /\ Occupancy = 0
    \/ Occupancy > Depth

MsiFrame == UNCHANGED <<ctorVars, pcieVars, relayVars, widthVars, msi_cdc>>

\* cd = "pcie": one edge of the pcie clock, self.msi wired to the hard IP.
MsiDirectStep ==
    /\ msi_cdc = NoQueue
    /\ msi_accepted' = IF MsiSinkTransfer THEN Append(msi_accepted, msi_dat)
                       ELSE msi_accepted
    /\ dev_accepted' = IF CfgMsiTransfer THEN Append(dev_accepted, cfg_msi_dat)
                       ELSE dev_accepted
    /\ ProducerNext(MsiSinkTransfer)
    /\ cfg_msi_sent' \in Bits
    /\ UNCHANGED <<produce, consume, produce_rdomain, consume_wdomain, storage,
                   msi_hazard>>
    /\ MsiFrame

\* cd # "pcie": an edge of the cd clock alone.
MsiWriteStep ==
    /\ msi_cdc # NoQueue
    /\ WriteSide
    /\ UNCHANGED <<consume, dev_accepted, cfg_msi_sent, produce_rdomain>>
    /\ WriteCapture
    /\ msi_hazard' = (msi_hazard \/ Hazard(MsiSinkTransfer, FALSE))
    /\ MsiFrame

\* cd # "pcie": an edge of the pcie clock alone.
MsiReadStep ==
    /\ msi_cdc # NoQueue
    /\ UNCHANGED <<storage, produce, msi_accepted, msi_valid, msi_dat, msi_sent,
                   consume_wdomain>>
    /\ ReadSide
    /\ ReadCapture
    /\ msi_hazard' = (msi_hazard \/ Hazard(FALSE, CfgMsiTransfer))
    /\ MsiFrame

\* cd # "pcie": an edge of each clock inside the other's capture window.
MsiCoincidentStep ==
    /\ msi_cdc # NoQueue
    /\ WriteSide
    /\ ReadSide
    /\ WriteCapture
    /\ ReadCapture
    /\ msi_hazard' = (msi_hazard \/ Hazard(MsiSinkTransfer, CfgMsiTransfer))
    /\ MsiFrame

(***************************************************************************)
(* The datapaths.  PHYTXDatapath and PHYRXDatapath reshape a frame between *)
(* the application width (data_width) and the hard IP width                *)
(* (pcie_data_width).  A unit carries dat (one entry per byte), be (one    *)
(* validity bit per byte) and the first/last flags.                        *)
(***************************************************************************)

\* Longest frame, in bytes.
MaxFrameBytes == 130

\* What a byte lane carries where be is 0 in a frame handed to the adapter.
Junk == Pow2(8) - 1

ByteAt(pos) == ((pos - 1) % 254) + 1

CeilDiv(a, b) == (a + b - 1) \div b

RECURSIVE Flatten(_)
Flatten(ss) == IF ss = <<>> THEN <<>> ELSE Head(ss) \o Flatten(Tail(ss))

Zeros(n) == [j \in 1 .. n |-> 0]

\* A well-formed frame of len bytes in units of w bytes: bytes numbered in
\* order, the last unit alone partly valid, first on the first unit and
\* last on the last.
MakeFrame(len, w) ==
    [k \in 1 .. CeilDiv(len, w) |->
        [dat   |-> [j \in 1 .. w |-> IF (k - 1) * w + j <= len
                                      THEN ByteAt((k - 1) * w + j) ELSE Junk],
         be    |-> [j \in 1 .. w |-> IF (k - 1) * w + j <= len THEN 1 ELSE 0],
         first |-> (k = 1),
         last  |-> (k = CeilDiv(len, w))]]

\* Narrow to wide: gather r input units of w bytes, or fewer when a last
\* unit comes first; bytes not supplied are invalid.
RECURSIVE UpConvert(_, _, _)
UpConvert(units, r, w) ==
    IF units = <<>> THEN <<>>
    ELSE LET stops == {j \in 1 .. Len(units) :
                          j = r \/ units[j].last \/ j = Len(units)}
             k     == CHOOSE j \in stops : \A i \in stops : j <= i
             chunk == SubSeq(units, 1, k)
             out   == [dat   |-> Flatten([i \in 1 .. k |-> chunk[i].dat])
                                 \o Zeros((r - k) * w),
                       be    |-> Flatten([i \in 1 .. k |-> chunk[i].be])
                                 \o Zeros((r - k) * w),
                       first |-> \E i \in 1 .. k : chunk[i].first,
                       last  |-> chunk[k].last]
         IN  <<out>> \o UpConvert(SubSeq(units, k + 1, Len(units)), r, w)

\* Wide to narrow: the r sub-units of w bytes of one unit; of a last unit,
\* only those up to the one holding the last valid byte.
SplitUnit(u, r, w) ==
    LET valid == {k \in 1 .. r : \E j \in 1 .. w : u.be[(k - 1) * w + j] = 1}
        kmax  == IF ~u.last THEN r
                 ELSE IF valid = {} THEN 1
                 ELSE CHOOSE k \in valid : \A i \in valid : i <= k
    IN  [k \in 1 .. kmax |->
            [dat   |-> SubSeq(u.dat, (k - 1) * w + 1, k * w),
             be    |-> SubSeq(u.be, (k - 1) * w + 1, k * w),
             first |-> (u.first /\ k = 1),
             last  |-> (u.last /\ k = kmax)]]

DownConvert(units, r, w) ==
    Flatten([i \in 1 .. Len(units) |-> SplitUnit(units[i], r, w)])

\* A frame in units of win bits as a frame in units of wout bits.
WidthAdapter(units, win, wout) ==
    IF wout > win THEN UpConvert(units, wout \div win, win \div 8)
    ELSE IF wout < win THEN DownConvert(units, win \div wout, wout \div 8)
    ELSE units

\* PHYTXDatapath(core_data_width=data_width, pcie_data_width=pcie_data_width):
\* sink at the application width, source at the hard IP width.
PHYTXDatapath(units) == WidthAdapter(units, data_width, pcie_data_width)

\* PHYRXDatapath(core_data_width=data_width, pcie_data_width=pcie_data_width):
\* sink at the hard IP width, source at the application width.
PHYRXDatapath(units) == WidthAdapter(units, pcie_data_width, data_width)

Widths == {64, 128, 256, 512}

WidthIdle ==
    /\ frame = <<>>
    /\ tx_out = <<>>
    /\ rx_out = <<>>
    /\ wpc = "idle"

WidthFrame == UNCHANGED <<ctorVars, pcieVars, relayVars, msiVars, frame>>

\* A frame offered on cmp_sink/req_sink leaves s_axis_cc/s_axis_rq.
TxStep ==
    /\ wpc = "app"
    /\ tx_out' = PHYTXDatapath(frame)
    /\ wpc' = "ext"
    /\ UNCHANGED rx_out
    /\ WidthFrame

\* The same units entering m_axis_cq/m_axis_rc leave req_source/cmp_source.
RxStep ==
    /\ wpc = "ext"
    /\ rx_out' = PHYRXDatapath(tx_out)
    /\ wpc' = "back"
    /\ UNCHANGED tx_out
    /\ WidthFrame

(***************************************************************************)
(* The specifications.                                                     *)
(***************************************************************************)

CtorDefault == CtorDone(64, WidthNone, "sys")

MsiIdle == msi_cdc = BuildMsiCdc(cd) /\ MsiSignalsInit

InitCtor  == CtorInit /\ PcieInit /\ RelayInit /\ msi_cdc = NoQueue
             /\ MsiSignalsInit /\ WidthIdle
NextCtor  == \/ CtorStreams \/ CtorRegisters \/ CtorParams \/ CtorAsserts
             \/ CtorClocking \/ CtorDatapaths \/ CtorMsiCdc \/ CtorHardIp
SpecCtor  == InitCtor /\ [][NextCtor]_vars

Init      == /\ CtorDefault /\ PcieInitWith(SizeCodes, SizeCodes)
             /\ RelayInit /\ MsiIdle /\ WidthIdle
Next      == SizeStep
Spec      == Init /\ [][Next]_vars

InitIdle  == CtorDefault /\ PcieInit /\ RelayInit /\ MsiIdle /\ WidthIdle
NextId    == IdStep
SpecId    == InitIdle /\ [][NextId]_vars

NextRelay == RelayPcieStep \/ RelaySysStep \/ RelayCoincidentStep
SpecRelay == InitIdle /\ [][NextRelay]_vars

NextBme   == BmePcieStep \/ BmeSysStep \/ BmeCoincidentStep
SpecBme   == InitIdle /\ [][NextBme]_vars

InitMsi   == /\ \E c \in ClockDomains : CtorDone(64, WidthNone, c)
             /\ PcieInit /\ RelayInit /\ MsiIdle /\ WidthIdle
NextMsi   == MsiDirectStep \/ MsiWriteStep \/ MsiReadStep \/ MsiCoincidentStep
SpecMsi   == InitMsi /\ [][NextMsi]_vars

InitWidth == /\ \E dw \in Widths, arg \in Widths \cup {WidthNone} : CtorDone(dw, arg, "sys")
             /\ PcieInit /\ RelayInit /\ MsiIdle
             /\ \E len \in 1 .. MaxFrameBytes : frame = MakeFrame(len, data_width \div 8)
             /\ tx_out = <<>>
             /\ rx_out = <<>>
             /\ wpc = "app"
NextWidth == TxStep \/ RxStep
SpecWidth == InitWidth /\ [][NextWidth]_vars

(***************************************************************************)
(* Consistency of the initial states: what the specifications of the       *)
(* running adapter start from is what the constructor ends with.           *)
(***************************************************************************)

CtorEndsAsAssumed ==
    pc = "done" =>
        /\ exists = AllBuilt(cd)
        /\ msi_cdc = BuildMsiCdc(cd)
        /\ pcie_data_width = ResolvePcieDataWidth(pcie_data_width_arg, data_width)
        /\ error = NoError

(***************************************************************************)
(* Properties.                                                             *)
(***************************************************************************)

\* The size table as the specification lists it.
SizeTable == <<128, 256, 512, 512, 512, 512>>

\* C1: a pcie clock step that finds a size code c in 0..5 on
\* cfg_max_read_req (cfg_max_payload_size) leaves max_request_size
\* (max_payload_size) at 128, 256, 512, 512, 512, 512 for c = 0..5; the
\* table never decreases and never exceeds 512.
C1_SizeLookup ==
    /\ [][
            /\ cfg_max_read_req \in 0 .. 5 =>
                   max_request_size' = SizeTable[cfg_max_read_req + 1]
            /\ cfg_max_payload_size \in 0 .. 5 =>
                   max_payload_size' = SizeTable[cfg_max_payload_size + 1]
          ]_vars
    /\ [](\A c \in 0 .. 5 : \A d \in c .. 5 :
               /\ SizeCases(MaxSize)[c] <= SizeCases(MaxSize)[d]
               /\ SizeCases(MaxSize)[d] <= 512)

\* C1: both registers loaded from the table, one of them from its clamped
\* part.
C1_Witness == max_request_size = 512 /\ max_payload_size = 128

\* C2: after a pcie clock step id carries the function number in bits 2:0,
\* the device number in bits 7:3 and the bus number in bits 15:8, each
\* field depending on its own sub-field only.
C2_IdFields ==
    [][ /\ id' % 8 = function_number
        /\ (id' \div 8) % 32 = device_number
        /\ (id' \div 256) % 256 = bus_number
        /\ id' < 65536 ]_vars

\* C2: an id with all three fields set.
C2_Witness == id = 7 + 8 * 21 + 256 * 170

\* The units that are in the queue, oldest first.
QueueContents ==
    [i \in 1 .. Occupancy |-> storage[(consume + i - 1) % Depth]]

\* C3: with cd other than "pcie", what self.msi has handed over is what the
\* hard IP has taken followed by what the queue holds, in order: nothing
\* lost, nothing twice, nothing out of order.
C3_FifoOrder ==
    cd # "pcie" => msi_accepted = dev_accepted \o QueueContents

\* C3: every unit offered has crossed, the buffer having wrapped.
C3_Witness ==
    /\ cd # "pcie"
    /\ Len(dev_accepted) = MaxMsi
    /\ dev_accepted = [i \in 1 .. MaxMsi |-> i]

\* C4: the read side never sees the write pointer ahead of where it is, the
\* write side never sees the read pointer ahead of where it is; so
\* "readable" implies a written entry, "writable" implies a free slot, and
\* no write hits a full buffer and no read an empty one.
C4_PointersSafe ==
    cd # "pcie" =>
        LET seenP == GrayDecode(produce_rdomain[2])
            seenC == GrayDecode(consume_wdomain[2])
        IN  /\ Occupancy <= 4
            /\ (seenP - consume) % PtrMod <= Occupancy
            /\ (produce - seenC) % PtrMod >= Occupancy
            /\ (produce - seenC) % PtrMod <= 4
            /\ readable => Occupancy >= 1
            /\ writable => Occupancy < 4
            /\ ~msi_hazard

\* C4: the buffer full, the write pointer a lap ahead and wrapped.
C4_Witness ==
    /\ cd # "pcie"
    /\ Occupancy = 4
    /\ ~writable
    /\ produce < consume

\* C5: what the application reads from a relayed status is a value its
\* source has held.
C5_NoTornValue ==
    /\ link_up_status \in lu_held
    /\ msi_enable_status \in me_held
    /\ max_request_size_status \in mrs_held
    /\ max_payload_size_status \in mps_held

\* C6 as claimed: a rejection leaves nothing created and describes the
\* offending parameter.
C6_RejectedBeforeAnything ==
    pc = "raised" => exists = {} /\ error.message # ""

ConfigInSets ==
    /\ speed \in {"gen2", "gen3", "gen4"}
    /\ nlanes \in {1, 2, 4, 8, 16}
    /\ data_width \in {64, 128, 256, 512}
    /\ pcie_data_width_arg \in {64, 128, 256, 512} \cup {WidthNone}

\* C6 amended: a configuration outside the sets is rejected by the first
\* failing assert (speed, lanes, application width, hard IP width, an unset
\* hard IP width counting as the application width) with an AssertionError
\* without message, when the stream endpoints and status registers exist
\* and no datapath, queue or relay does; a configuration inside the sets
\* passes the asserts and the constructor completes.
C6_RejectedAtAsserts ==
    /\ pc = "raised" =>
           /\ ~ConfigInSets
           /\ exists = StreamEndpoints \cup StatusRegisters
           /\ exists \cap (Datapaths \cup Queues \cup Relays) = {}
           /\ error.type = "AssertionError"
           /\ error.message = ""
           /\ error.line = (IF speed \notin {"gen2", "gen3", "gen4"} THEN 54
                            ELSE IF nlanes \notin {1, 2, 4, 8, 16} THEN 55
                            ELSE IF data_width \notin {64, 128, 256, 512} THEN 56
                            ELSE 57)
    /\ pc \in {"clocking", "datapaths", "msi_cdc", "hard_ip", "done"} =>
           ConfigInSets /\ error = NoError
    /\ exists \cap (Datapaths \cup Queues \cup Relays) # {} => ConfigInSets

\* C6: a rejection by the last assert: the hard IP width alone is outside.
C6_Witness == pc = "raised" /\ error.line = 57 /\ pcie_data_width = 1024

\* A unit with what its invalid byte lanes carry blanked.
Masked(u) ==
    [dat   |-> [j \in 1 .. Len(u.dat) |-> IF u.be[j] = 1 THEN u.dat[j] ELSE 0],
     be    |-> u.be,
     first |-> u.first,
     last  |-> u.last]

SameContent(f, g) ==
    /\ Len(f) = Len(g)
    /\ \A i \in 1 .. Len(f) : Masked(f[i]) = Masked(g[i])

\* C7: a frame sent through the TX datapath and back through the RX
\* datapath comes out with the same units: same valid bytes in the same
\* lanes, same byte enables, same first/last flags; with pcie_data_width
\* unset, or equal to data_width, each datapath leaves the units as they are.
C7_RoundTrip ==
    /\ wpc = "back" => SameContent(rx_out, frame)
    /\ wpc \in {"ext", "back"}
       /\ (pcie_data_width_arg = WidthNone \/ pcie_data_width_arg = data_width)
           => tx_out = frame
    /\ wpc = "back"
       /\ (pcie_data_width_arg = WidthNone \/ pcie_data_width_arg = data_width)
           => rx_out = tx_out

\* C7: a frame of three 64-bit units, the last partly valid, through a
\* 512-bit hard IP and back.
C7_Witness ==
    /\ wpc = "back"
    /\ data_width = 64
    /\ pcie_data_width = 512
    /\ Len(frame) = 3
    /\ Len(tx_out) = 1
    /\ frame[3].be # [j \in 1 .. 8 |-> 1]
    /\ rx_out = frame

\* C8: with cd = "pcie" there is no queue: the hard IP sees the valid and
\* dat of self.msi, self.msi sees the hard IP's "sent" as ready, and a unit
\* is taken on both sides at the same step; with any other cd there is the
\* one queue of depth 4, written in cd and read in pcie.
C8_QueueIffDomainsDiffer ==
    /\ cd = "pcie" =>
           /\ msi_cdc = NoQueue
           /\ "msi_cdc" \notin exists
           /\ cfg_msi_valid = msi_valid
           /\ cfg_msi_dat = msi_dat
           /\ msi_ready = cfg_msi_sent
           /\ dev_accepted = msi_accepted
    /\ cd # "pcie" =>
           /\ msi_cdc = [depth |-> 4, write |-> cd, read |-> "pcie"]
           /\ "msi_cdc" \in exists

\* C8: units have passed straight through.
C8_Witness == cd = "pcie" /\ Len(dev_accepted) >= 2 /\ msi_valid = 1

\* C9: the size registers hold 0, 128, 256 or 512; a pcie clock step that
\* finds code 6 or 7 leaves the register as it is; a step that finds a code
\* in 0..5 leaves it non-zero, and a non-zero register never returns to 0.
C9_HoldOnCode6And7 ==
    /\ [](/\ max_request_size \in {0, 128, 256, 512}
          /\ max_payload_size \in {0, 128, 256, 512})
    /\ [][ /\ cfg_max_read_req \in {6, 7} => max_request_size' = max_request_size
           /\ cfg_max_payload_size \in {6, 7} => max_payload_size' = max_payload_size
           /\ cfg_max_read_req \in 0 .. 5 => max_request_size' # 0
           /\ cfg_max_payload_size \in 0 .. 5 => max_payload_size' # 0
           /\ max_request_size # 0 => max_request_size' # 0
           /\ max_payload_size # 0 => max_payload_size' # 0 ]_vars

\* C9: the request size still 0 (only codes 6 and 7 seen so far) while the
\* payload size has been loaded.
C9_Witness == max_request_size = 0 /\ max_payload_size = 512

=============================================================================
